---- MODULE Spec2Model ----
(***************************************************************************)
(* A model of monitor3.py: the two timers (RepeatedTimer and               *)
(* RepeatedRealTimer), the button debouncer (Button, ButtonController)     *)
(* and the refresh pass of Monitor.                                         *)
(*                                                                         *)
(* Time is counted in milliseconds.  Every Python thread is a process of   *)
(* the model.  A block run under a lock is one atomic action; outside a    *)
(* lock the lines of check_transitions, of Button.pressed/released and of  *)
(* refresh_info that read or write shared fields are actions of their own, *)
(* so that the threads interleave as they do under the interpreter.  A     *)
(* thread may be delayed for any time at any of its steps.                 *)
(*                                                                         *)
(* Seven specifications share the variables:                               *)
(*   Spec         the debouncer: the GPIO edge callback, the poll timer    *)
(*                (a RepeatedTimer) and the passes of check_transitions;   *)
(*   SpecReal     the RepeatedRealTimer that drives the refresh;           *)
(*   SpecMonitor  Monitor with a second caller of refresh_info; a click    *)
(*                runs its handler to the end in one step;                 *)
(*   SpecLoop     Monitor as the program runs it: the consumer loop, and   *)
(*                the handlers of the clicks executed statement by         *)
(*                statement on the poll thread while a pass is running;    *)
(*   SpecLoopFair SpecLoop with the main thread, the handler thread and    *)
(*                the wall-clock timer scheduled fairly;                   *)
(*   SpecActions  the action handlers called one after the other;          *)
(*   SpecTeardown Monitor.destroy beside the two timers and the passes of  *)
(*                check_transitions.                                       *)
(***************************************************************************)
EXTENDS Integers, FiniteSets, Sequences, Bags, TLC

\* ---------------------------------------------------------------- bounds
\* Number of registered buttons.
NumButtons == 1
\* Timer thread objects that may exist at one time.
MaxThreads == 3
\* Calls of the GPIO edge callback.
MaxEdges == 2
\* Clock advances of a run of the debouncer.
MaxTicks == 3
\* Clock advances of a run of the RepeatedRealTimer.
MaxRealTicks == 3
\* Contexts that call refresh_info: the consumer loop is caller 1.
NumCallers == 2

\* ------------------------------------------------------ program constants
\* RepeatedTimer(0.05, ...): the poll interval, in ms.
Interval == 50
\* Timer(0.001, self._run): the delay of the first firing, in ms.
FirstDelay == 1
\* (t - b.momentary_status_time).microseconds > 100000, in ms.
SettleMs == 100
\* delta.seconds*1000000+delta.microseconds >= 1000000, in ms.
LongMs == 1000
\* timedelta.microseconds is the part of the duration below one second.
SecondMs == 1000
\* timedelta.seconds is the part of the duration below one day.
DayMs == 86400000

\* RepeatedRealTimer(5.0, self.poll_info): the refresh interval, in ms.
RealInterval == 5000

Buttons == 1..NumButtons
Callers == 1..NumCallers

VARIABLES
  now,                    \* the clock, time() and utcnow()
  ticks,                  \* clock advances so far
  active,                 \* RepeatedTimer.active
  is_running,             \* RepeatedTimer.is_running
  next_call,              \* RepeatedTimer.next_call
  thr,                    \* the Timer threads of the poll timer, a bag; the
                          \* one RepeatedTimer._timer names is marked latest
  status,                 \* Button.status, per button
  status_time,            \* Button.status_time
  momentary_status,       \* Button.momentary_status
  momentary_status_time,  \* Button.momentary_status_time
  edge,                   \* the GPIO callback thread
  edges,                  \* edge callbacks so far
  clicks,                 \* the handlers dispatched so far, per button
  ups,                    \* the changes of status from DOWN to UP so far, per button
  real_active,            \* RepeatedRealTimer.active
  real_is_running,        \* RepeatedRealTimer.is_running
  real_thr,               \* the Timer threads of the RepeatedRealTimer, a bag
  action_event,           \* Monitor.action_event: the flag of the Event
  in_progress,            \* Monitor.in_progress
  work_mode,              \* Monitor.work_mode
  picture_done,           \* Monitor.picture_done
  shutdown_stage,         \* Monitor.shutdown_stage
  current_menu,           \* Monitor.current_menu
  current_menu_changed,   \* Monitor.current_menu_changed
  one_time_refresh,       \* DspInfo.one_time_refresh
  update_type,            \* DspInfo.update_type
  wifi_mode,              \* Monitor.wifi_mode
  wifi_menu,              \* the wifi_mode Monitor.wifi_menu was last built for
  mon,                    \* the contexts that call refresh_info
  hnd,                    \* the poll thread while it runs an action handler
  calls,                  \* the last two handlers called one after the other
  notices,                \* shutdown notices rendered: 0, 1 or 2 for more
  down,                   \* where Monitor.destroy is: "no", "L1178", "returned"
  since                   \* clears of action_event by the consumer loop since
                          \* it was last set: 0, 1 or 2 for more

timerVars == <<active, is_running, next_call, thr>>
buttonVars == <<status, status_time, momentary_status, momentary_status_time>>
debounceVars == <<timerVars, buttonVars, edge, edges, clicks, ups>>
pollVars == <<now, ticks, debounceVars>>

realVars == <<real_active, real_is_running, real_thr>>
dspVars == <<one_time_refresh, update_type>>
stateVars == <<work_mode, picture_done, shutdown_stage, current_menu,
               current_menu_changed>>
\* What the consumer loop and the handlers leave alone.
lifeVars == <<down>>
monVars == <<in_progress, stateVars, dspVars, wifi_mode, wifi_menu, mon, hnd,
             calls, notices, lifeVars, since>>

vars == <<pollVars, realVars, action_event, monVars>>

\* ------------------------------------------------------------ arithmetic
\* math.ceil(a / b) for b > 0.
Ceil(a, b) == IF a % b = 0 THEN a \div b ELSE (a \div b) + 1

\* timedelta.microseconds of the duration d (here in ms): always in 0..999,
\* also for a negative duration, which Python normalises with negative days.
Microseconds(d) == d % SecondMs

\* delta.seconds*1000000 + delta.microseconds: the duration without its days.
SecondsAndMicroseconds(d) == d % DayMs

\* ---------------------------------------------------------- Timer threads
\* A Timer thread before it runs: waiting until due ("wait"), or past its wait
\* and about to enter _run ("fired").  latest marks the Timer self._timer names.
\* first and late record how the thread was scheduled: by start(), or by a _run
\* that found its intended time already past.
TimerThread(delay, isFirst, isLate) ==
  [pc |-> "wait", due |-> now + delay, first |-> isFirst, late |-> isLate,
   latest |-> TRUE, t |-> 0, mismatch |-> FALSE, b |-> 0, old_time |-> 0,
   prev |-> "UP"]

One(r) == SetToBag({r})

\* The bag th with one copy of r replaced by q.
Replace(th, r, q) == (th (-) One(r)) (+) One(q)

\* self._timer = Timer(...): the Timer named before is no longer the latest.
Unmark(th) ==
  LET marked == {r \in BagToSet(th) : r.latest}
  IN IF marked = {} THEN th
     ELSE LET r == CHOOSE x \in marked : TRUE
          IN Replace(th, r, [r EXCEPT !.latest = FALSE])

\* Timer.cancel(): sets the finished event; only a thread still waiting sees
\* it, and ends without calling _run.
Cancel(th) ==
  LET hit == {r \in BagToSet(th) : r.latest /\ r.pc = "wait"}
  IN IF hit = {} THEN th ELSE th (-) One(CHOOSE x \in hit : TRUE)

\* --------------------------------------------------------------- clock
TickSteps == {FirstDelay, Interval, SettleMs + Interval, LongMs}

Tick ==
  /\ ticks < MaxTicks
  /\ \E d \in TickSteps : now' = now + d
  /\ ticks' = ticks + 1
  /\ UNCHANGED <<timerVars, buttonVars, edge, edges, clicks, ups>>

\* ------------------------------------------------------- RepeatedTimer
\* A variant of NextCall that rounds the number of missed intervals down.
NextCall_Floor(nc, t) ==
  IF (nc + Interval) - t < 0
    THEN ((t - (nc + Interval)) \div Interval) * Interval + (nc + Interval)
    ELSE nc + Interval

\* The next intended time _run computes (lines 85-89).
NextCall(nc, t) ==
  IF (nc + Interval) - t < 0
  THEN Ceil(t - (nc + Interval), Interval) * Interval + (nc + Interval)
  ELSE nc + Interval

\* RepeatedTimer.start(), under the lock.
start ==
  /\ BagCardinality(thr) < MaxThreads
  /\ active' = TRUE
  /\ next_call' = now + Interval
  /\ thr' = Unmark(thr) (+) One(TimerThread(FirstDelay, TRUE, FALSE))
  /\ is_running' = TRUE

\* RepeatedTimer.stop(), under the lock, with the Timer threads th.
stop(th) ==
  /\ thr' = Cancel(th)
  /\ is_running' = FALSE
  /\ active' = FALSE
  /\ UNCHANGED next_call

\* threading.Timer.run: the wait ended and the timer was not cancelled.
Expire(r) ==
  /\ r.pc = "wait"
  /\ now >= r.due
  /\ thr' = Replace(thr, r, [r EXCEPT !.pc = "fired"])
  /\ UNCHANGED <<now, ticks, active, is_running, next_call, buttonVars,
                 edge, edges, clicks, ups>>

\* check_transitions, lines 250-251: t = dt.datetime.utcnow(); mismatch = False;
\* the loop over the buttons starts.
Enter(r) ==
  [r EXCEPT !.pc = "L253", !.due = 0, !.first = FALSE, !.late = FALSE,
            !.latest = FALSE,
            !.t = now, !.mismatch = FALSE, !.b = 1]

\* RepeatedTimer._run: the block under the lock, then the call of function,
\* which begins check_transitions.
Run(r) ==
  /\ r.pc = "fired"
  /\ IF active
     THEN /\ BagCardinality(thr) < MaxThreads
          /\ next_call' = NextCall(next_call, now)
          /\ thr' = Unmark(Replace(thr, r, Enter(r)))
                      (+) One(TimerThread(next_call' - now, FALSE,
                                           next_call + Interval < now))
          /\ is_running' = TRUE
     ELSE /\ thr' = Replace(thr, r, Enter(r))
          /\ is_running' = FALSE
          /\ UNCHANGED next_call
  /\ UNCHANGED <<now, ticks, active, buttonVars, edge, edges, clicks, ups>>

\* ---------------------------------------- ButtonController.check_transitions
\* The loop goes on to the next button.
NextButton(r) ==
  [r EXCEPT !.pc = "L253", !.b = r.b + 1, !.old_time = 0, !.prev = "UP"]

\* for b in self.buttons.values(): if b.status != b.momentary_status:
L253(r) ==
  /\ r.pc = "L253"
  /\ IF r.b > NumButtons
     THEN thr' = Replace(thr, r, [r EXCEPT !.pc = "L268"])
     ELSE IF status[r.b] # momentary_status[r.b]
          THEN thr' = Replace(thr, r, [r EXCEPT !.pc = "L255", !.mismatch = TRUE])
          ELSE thr' = Replace(thr, r, NextButton(r))
  /\ UNCHANGED <<now, ticks, active, is_running, next_call, buttonVars,
                 edge, edges, clicks, ups>>

\* The settle test of line 255.
Settled(t, mt) == Microseconds(t - mt) > SettleMs

\* if (t - b.momentary_status_time).microseconds > 100000:
\*   old_time = b.status_time
L255(r) ==
  /\ r.pc = "L255"
  /\ IF Settled(r.t, momentary_status_time[r.b])
     THEN thr' = Replace(thr, r, [r EXCEPT !.pc = "L257",
                                           !.old_time = status_time[r.b]])
     ELSE thr' = Replace(thr, r, NextButton(r))
  /\ UNCHANGED <<now, ticks, active, is_running, next_call, buttonVars,
                 edge, edges, clicks, ups>>

\* b.status = b.momentary_status (prev keeps the status the line overwrote,
\* ups counts the changes from DOWN to UP)
L257(r) ==
  /\ r.pc = "L257"
  /\ status' = [status EXCEPT ![r.b] = momentary_status[r.b]]
  /\ thr' = Replace(thr, r, [r EXCEPT !.pc = "L258", !.prev = status[r.b]])
  /\ ups' = [ups EXCEPT ![r.b] =
               IF status[r.b] = "DOWN" /\ momentary_status[r.b] = "UP"
               THEN @ + 1 ELSE @]
  /\ UNCHANGED <<now, ticks, active, is_running, next_call, status_time,
                 momentary_status, momentary_status_time, edge, edges, clicks>>

\* b.status_time = b.momentary_status_time
L258(r) ==
  /\ r.pc = "L258"
  /\ status_time' = [status_time EXCEPT ![r.b] = momentary_status_time[r.b]]
  /\ thr' = Replace(thr, r, [r EXCEPT !.pc = "L259"])
  /\ UNCHANGED <<now, ticks, active, is_running, next_call, status,
                 momentary_status, momentary_status_time, edge, edges, clicks, ups>>

\* The handler lines 261-266 choose for the duration delta.
Classify(delta) ==
  IF SecondsAndMicroseconds(delta) >= LongMs THEN "long" ELSE "short"

\* if b.status == "UP": delta = b.status_time - old_time, and the call of the
\* handler.  The entry added to clicks records the handler, the status line 257
\* overwrote and the two debounced timestamps.
L259(r) ==
  /\ r.pc = "L259"
  /\ LET delta == status_time[r.b] - r.old_time
     IN IF status[r.b] = "UP"
        THEN clicks' = [clicks EXCEPT ![r.b] =
                          Append(@, [kind |-> Classify(delta), prev |-> r.prev,
                                     down |-> r.old_time, up |-> status_time[r.b]])]
        ELSE UNCHANGED clicks
  /\ thr' = Replace(thr, r, NextButton(r))
  /\ UNCHANGED <<now, ticks, active, is_running, next_call, buttonVars,
                 edge, edges, ups>>

\* A variant of the end of a pass that stops the timer when it leaves every
\* channel settled, whatever it found when it examined them.
L268_StopWhenSettled(r) ==
  /\ r.pc = "L268"
  /\ IF \A b \in Buttons : status[b] = momentary_status[b]
     THEN stop(thr (-) One(r))
     ELSE /\ thr' = thr (-) One(r)
          /\ UNCHANGED <<active, is_running, next_call>>
  /\ UNCHANGED <<now, ticks, buttonVars, edge, edges, clicks, ups>>

\* if not mismatch: self.timer.stop(); the pass and its thread end.
L268(r) ==
  /\ r.pc = "L268"
  /\ IF ~r.mismatch
     THEN stop(thr (-) One(r))
     ELSE /\ thr' = thr (-) One(r)
          /\ UNCHANGED <<active, is_running, next_call>>
  /\ UNCHANGED <<now, ticks, buttonVars, edge, edges, clicks, ups>>

\* ------------------------------- ButtonController.button_pressed_released
\* A variant of pressed() / released() that sets and stamps the momentary
\* state whatever it was.
EdgeLevel_AlwaysStamps(b, level) ==
  /\ edge.pc = "idle"
  /\ edges < MaxEdges
  /\ edges' = edges + 1
  /\ momentary_status' = [momentary_status EXCEPT ![b] = level]
  /\ edge' = [pc |-> "stamp", b |-> b]
  /\ UNCHANGED <<now, ticks, timerVars, status, status_time,
                 momentary_status_time, clicks, ups>>

\* Button.pressed() / Button.released(), first line: the level GPIO.input
\* returns decides which; a call that changes nothing goes on to timer.start().
EdgeLevel(b, level) ==
  /\ edge.pc = "idle"
  /\ edges < MaxEdges
  /\ edges' = edges + 1
  /\ IF momentary_status[b] # level
     THEN /\ momentary_status' = [momentary_status EXCEPT ![b] = level]
          /\ edge' = [pc |-> "stamp", b |-> b]
     ELSE /\ edge' = [pc |-> "start", b |-> b]
          /\ UNCHANGED momentary_status
  /\ UNCHANGED <<now, ticks, timerVars, status, status_time,
                 momentary_status_time, clicks, ups>>

\* self.momentary_status_time = dt.datetime.utcnow()
EdgeStamp ==
  /\ edge.pc = "stamp"
  /\ momentary_status_time' = [momentary_status_time EXCEPT ![edge.b] = now]
  /\ edge' = [edge EXCEPT !.pc = "start"]
  /\ UNCHANGED <<now, ticks, timerVars, status, status_time, momentary_status,
                 edges, clicks, ups>>

\* self.timer.start()
EdgeStart ==
  /\ edge.pc = "start"
  /\ start
  /\ edge' = [pc |-> "idle", b |-> 0]
  /\ UNCHANGED <<now, ticks, buttonVars, edges, clicks, ups>>

\* --------------------------------------------------- RepeatedRealTimer
\* Monitor.poll_info, the function of the RepeatedRealTimer.
poll_info == action_event' = TRUE

\* A variant of RealDelay that waits a whole interval whatever the clock reads.
RealDelay_Period(t) == RealInterval

\* divmod(now, interval) at lines 153 and 167 gives r = now mod interval;
\* the Timer waits interval - r.
RealDelay(t) == RealInterval - (t % RealInterval)

\* A Timer thread created at clock reading t.  sched, prev and fire record
\* the history of its chain: the reading it was scheduled at, and the times
\* the previous and its own call of the function began (-1: none).
RealTimerThread(t, prevFire) ==
  [pc |-> "wait", due |-> t + RealDelay(t), sched |-> t, prev |-> prevFire,
   fire |-> -1, latest |-> TRUE]

RealTickSteps ==
  {FirstDelay, RealInterval \div 2, RealInterval, RealInterval + RealInterval \div 2}

RealTick ==
  /\ ticks < MaxRealTicks
  /\ \E d \in RealTickSteps : now' = now + d
  /\ ticks' = ticks + 1
  /\ UNCHANGED <<realVars, action_event>>

\* RepeatedRealTimer.start
real_start ==
  /\ BagCardinality(real_thr) < MaxThreads
  /\ real_active' = TRUE
  /\ real_thr' = Unmark(real_thr) (+) One(RealTimerThread(now, -1))
  /\ real_is_running' = TRUE
  /\ UNCHANGED <<now, ticks, action_event>>

\* RepeatedRealTimer.stop
real_stop ==
  /\ real_thr' = Cancel(real_thr)
  /\ real_is_running' = FALSE
  /\ real_active' = FALSE
  /\ UNCHANGED <<now, ticks, action_event>>

\* threading.Timer.run: the wait is over and the Timer was not cancelled.
RealExpire(r) ==
  /\ r.pc = "wait"
  /\ now >= r.due
  /\ real_thr' = Replace(real_thr, r, [r EXCEPT !.pc = "fired"])
  /\ UNCHANGED <<now, ticks, real_active, real_is_running, action_event>>

\* RepeatedRealTimer._run, line 150: the function is called first.
RealCall(r) ==
  /\ r.pc = "fired"
  /\ poll_info
  /\ real_thr' = Replace(real_thr, r, [r EXCEPT !.pc = "called", !.fire = now])
  /\ UNCHANGED <<now, ticks, real_active, real_is_running>>

\* RepeatedRealTimer._run, lines 151-158: the block under the lock.
RealRun(r) ==
  /\ r.pc = "called"
  /\ IF real_active
       THEN /\ real_thr' = Unmark(real_thr (-) One(r))
                             (+) One(RealTimerThread(now, r.fire))
            /\ real_is_running' = TRUE
       ELSE /\ real_thr' = real_thr (-) One(r)
            /\ real_is_running' = FALSE
  /\ UNCHANGED <<now, ticks, real_active, action_event>>

\* -------------------------------------------------------------- Monitor
MenuButtons == {"TOP", "MIDDLE", "BOTTOM"}

ClickKinds == {"short", "long"}

\* A variant of the menus whose wifi menu for "AP" holds the cancel action at
\* the bottom and the off action in the middle.
MenuAction_ApCancelAtBottom(menu, layout, b, k) ==
  CASE menu = "main" ->
         (CASE b = "TOP" /\ k = "short" -> "action_refresh"
            [] b = "TOP" /\ k = "long" -> "action_sleep"
            [] b = "MIDDLE" /\ k = "short" -> "action_wifi_select"
            [] b = "BOTTOM" /\ k = "short" -> "action_power"
            [] b = "BOTTOM" /\ k = "long" -> "action_exit_confirm"
            [] OTHER -> "None")
    [] menu = "sleep" ->
         (CASE b = "TOP" /\ k = "short" -> "action_wakeup"
            [] b = "BOTTOM" /\ k = "short" -> "action_power"
            [] OTHER -> "None")
    [] menu = "power" ->
         (CASE b = "TOP" /\ k = "short" -> "action_shutdown"
            [] b = "MIDDLE" /\ k = "short" -> "action_cancel_shutdown"
            [] OTHER -> "None")
    [] menu = "exit" ->
         (CASE b = "TOP" /\ k = "short" -> "action_exit"
            [] b = "MIDDLE" /\ k = "short" -> "action_cancel_exit"
            [] OTHER -> "None")
    [] menu = "wifi" /\ layout = "AP" ->
         (CASE b = "TOP" /\ k = "short" -> "action_wifi_home"
            [] b = "MIDDLE" /\ k = "short" -> "action_wifi_off"
            [] b = "BOTTOM" /\ k = "short" -> "action_cancel_wifi_select"
            [] OTHER -> "None")
    [] menu = "wifi" /\ layout = "CLIENT" ->
         (CASE b = "TOP" /\ k = "short" -> "action_cancel_wifi_select"
            [] b = "MIDDLE" /\ k = "short" -> "action_wifi_field"
            [] b = "BOTTOM" /\ k = "short" -> "action_wifi_off"
            [] OTHER -> "None")
    [] OTHER ->
         (CASE b = "TOP" /\ k = "short" -> "action_wifi_home"
            [] b = "MIDDLE" /\ k = "short" -> "action_wifi_field"
            [] b = "BOTTOM" /\ k = "short" -> "action_cancel_wifi_select"
            [] OTHER -> "None")

\* The six actions of a Menu, as the constructors at lines 811-828 and
\* 889-897 pass them; layout is the wifi_mode the wifi menu was built for.
MenuAction(menu, layout, b, k) ==
  CASE menu = "main" ->
         (CASE b = "TOP" /\ k = "short" -> "action_refresh"
            [] b = "TOP" /\ k = "long" -> "action_sleep"
            [] b = "MIDDLE" /\ k = "short" -> "action_wifi_select"
            [] b = "BOTTOM" /\ k = "short" -> "action_power"
            [] b = "BOTTOM" /\ k = "long" -> "action_exit_confirm"
            [] OTHER -> "None")
    [] menu = "sleep" ->
         (CASE b = "TOP" /\ k = "short" -> "action_wakeup"
            [] b = "BOTTOM" /\ k = "short" -> "action_power"
            [] OTHER -> "None")
    [] menu = "power" ->
         (CASE b = "TOP" /\ k = "short" -> "action_shutdown"
            [] b = "MIDDLE" /\ k = "short" -> "action_cancel_shutdown"
            [] OTHER -> "None")
    [] menu = "exit" ->
         (CASE b = "TOP" /\ k = "short" -> "action_exit"
            [] b = "MIDDLE" /\ k = "short" -> "action_cancel_exit"
            [] OTHER -> "None")
    [] menu = "wifi" /\ layout = "AP" ->
         (CASE b = "TOP" /\ k = "short" -> "action_wifi_home"
            [] b = "MIDDLE" /\ k = "short" -> "action_cancel_wifi_select"
            [] b = "BOTTOM" /\ k = "short" -> "action_wifi_off"
            [] OTHER -> "None")
    [] menu = "wifi" /\ layout = "CLIENT" ->
         (CASE b = "TOP" /\ k = "short" -> "action_cancel_wifi_select"
            [] b = "MIDDLE" /\ k = "short" -> "action_wifi_field"
            [] b = "BOTTOM" /\ k = "short" -> "action_wifi_off"
            [] OTHER -> "None")
    [] OTHER ->
         (CASE b = "TOP" /\ k = "short" -> "action_wifi_home"
            [] b = "MIDDLE" /\ k = "short" -> "action_wifi_field"
            [] b = "BOTTOM" /\ k = "short" -> "action_cancel_wifi_select"
            [] OTHER -> "None")

\* One statement of an action handler that writes a field of Monitor or
\* DspInfo: the field, and the value where the handler chooses one.
Op(f, v) == [f |-> f, v |-> v]

\* Monitor.set_current_menu: its two assignments.
set_current_menu(menu) ==
  <<Op("current_menu", menu), Op("current_menu_changed", "True")>>

\* self.action_event.set()
event_set == <<Op("action_event", "set")>>

\* A handler whose mode test fails executes nothing.
NoAction == <<>>

\* The handlers, lines 863-1014: the statements each executes, in order,
\* when it reads the mode as it is now.
action_refresh ==
  IF work_mode = "run"
    THEN <<Op("one_time_refresh", "True")>> \o event_set
    ELSE NoAction

\* A variant of action_sleep that leaves the current menu as it is.
action_sleep_KeepsMenu ==
  IF work_mode = "run"
    THEN <<Op("work_mode", "sleep")>> \o event_set
    ELSE NoAction

action_sleep ==
  IF work_mode = "run"
    THEN <<Op("work_mode", "sleep")>> \o set_current_menu("sleep") \o event_set
    ELSE NoAction

action_cancel_wifi_select == set_current_menu("main") \o event_set

\* A variant of action_wifi_select that shows the wifi menu it finds
\* without building it again.
action_wifi_select_NoRebuild ==
  IF work_mode = "run" \/ work_mode = "sleep"
    THEN set_current_menu("wifi") \o event_set
    ELSE NoAction

action_wifi_select ==
  IF work_mode = "run" \/ work_mode = "sleep"
    THEN <<Op("wifi_menu", "Menu")>> \o set_current_menu("wifi") \o event_set
    ELSE NoAction

\* action_wifi_home, action_wifi_field and action_wifi_off differ in the
\* mode they pass to set_wifi.sh and store.
action_wifi(mode) ==
  IF work_mode = "run"
    THEN <<Op("wifi_mode", mode)>> \o set_current_menu("main") \o event_set
    ELSE NoAction

action_wifi_home == action_wifi("CLIENT")

action_wifi_field == action_wifi("AP")

action_wifi_off == action_wifi("OFF")

action_power ==
  IF work_mode = "run" \/ work_mode = "sleep"
    THEN set_current_menu("power") \o event_set
    ELSE NoAction

action_exit_confirm ==
  IF work_mode = "run" \/ work_mode = "sleep"
    THEN set_current_menu("exit") \o event_set
    ELSE NoAction

action_wakeup ==
  IF work_mode = "sleep"
    THEN <<Op("work_mode", "run")>> \o set_current_menu("main")
           \o <<Op("one_time_refresh", "True")>> \o event_set
    ELSE NoAction

action_shutdown ==
  IF work_mode = "run" \/ work_mode = "sleep"
    THEN <<Op("shutdown_stage", "1")>> \o event_set
    ELSE NoAction

\* A variant of action_cancel_shutdown that always returns to the main menu.
action_cancel_shutdown_ToMain ==
  IF work_mode = "run" \/ work_mode = "sleep"
    THEN set_current_menu("main") \o event_set
    ELSE NoAction

action_cancel_shutdown ==
  IF work_mode = "run"
    THEN set_current_menu("main") \o event_set
    ELSE IF work_mode = "sleep"
      THEN set_current_menu("sleep") \o event_set
      ELSE NoAction

action_exit ==
  IF work_mode = "run" \/ work_mode = "sleep"
    THEN <<Op("work_mode", "stop")>> \o event_set
    ELSE NoAction

action_cancel_exit ==
  IF work_mode = "run"
    THEN set_current_menu("main") \o event_set
    ELSE IF work_mode = "sleep"
      THEN set_current_menu("sleep") \o event_set
      ELSE NoAction

Actions ==
  {"action_refresh", "action_sleep", "action_cancel_wifi_select",
   "action_wifi_select", "action_wifi_home", "action_wifi_field",
   "action_wifi_off", "action_power", "action_exit_confirm", "action_wakeup",
   "action_shutdown", "action_cancel_shutdown", "action_exit",
   "action_cancel_exit"}

\* The statements the handler named a executes.
Body(a) ==
  CASE a = "action_refresh" -> action_refresh
    [] a = "action_sleep" -> action_sleep
    [] a = "action_cancel_wifi_select" -> action_cancel_wifi_select
    [] a = "action_wifi_select" -> action_wifi_select
    [] a = "action_wifi_home" -> action_wifi_home
    [] a = "action_wifi_field" -> action_wifi_field
    [] a = "action_wifi_off" -> action_wifi_off
    [] a = "action_power" -> action_power
    [] a = "action_exit_confirm" -> action_exit_confirm
    [] a = "action_wakeup" -> action_wakeup
    [] a = "action_shutdown" -> action_shutdown
    [] a = "action_cancel_shutdown" -> action_cancel_shutdown
    [] a = "action_exit" -> action_exit
    [] a = "action_cancel_exit" -> action_cancel_exit
    [] OTHER -> NoAction

\* The fields the handlers write.
Fields ==
  [work_mode |-> work_mode, current_menu |-> current_menu,
   current_menu_changed |-> current_menu_changed,
   shutdown_stage |-> shutdown_stage, wifi_mode |-> wifi_mode,
   wifi_menu |-> wifi_menu, one_time_refresh |-> one_time_refresh,
   action_event |-> action_event, since |-> since]

\* The effect of one statement.  action_wifi_select builds the menu for the
\* wifi_mode it reads (lines 889-897).
Do(op, st) ==
  CASE op.f = "work_mode" -> [st EXCEPT !.work_mode = op.v]
    [] op.f = "current_menu" -> [st EXCEPT !.current_menu = op.v]
    [] op.f = "current_menu_changed" -> [st EXCEPT !.current_menu_changed = TRUE]
    [] op.f = "shutdown_stage" -> [st EXCEPT !.shutdown_stage = 1]
    [] op.f = "wifi_mode" -> [st EXCEPT !.wifi_mode = op.v]
    [] op.f = "wifi_menu" -> [st EXCEPT !.wifi_menu = st.wifi_mode]
    [] op.f = "one_time_refresh" -> [st EXCEPT !.one_time_refresh = TRUE]
    [] op.f = "action_event" -> [st EXCEPT !.action_event = TRUE, !.since = 0]

\* The effect of a sequence of statements executed without interruption.
RECURSIVE DoAll(_, _)
DoAll(ops, st) == IF ops = <<>> THEN st ELSE DoAll(Tail(ops), Do(Head(ops), st))

\* The fields become those of st.
Store(st) ==
  /\ work_mode' = st.work_mode
  /\ current_menu' = st.current_menu
  /\ current_menu_changed' = st.current_menu_changed
  /\ shutdown_stage' = st.shutdown_stage
  /\ wifi_mode' = st.wifi_mode
  /\ wifi_menu' = st.wifi_menu
  /\ one_time_refresh' = st.one_time_refresh
  /\ action_event' = st.action_event
  /\ since' = st.since

\* A handler called and run to its end with nothing in between.
Call(a) ==
  /\ hnd.pc = "idle"
  /\ Store(DoAll(Body(a), Fields))
  /\ UNCHANGED <<in_progress, picture_done, update_type, mon, hnd, notices, lifeVars>>

\* A handler called by a single thread that calls one handler after the
\* other; calls remembers the last two.
Invoke(a) ==
  /\ Call(a)
  /\ calls' = <<calls[2], a>>

\* A click whose handler runs to its end before anything else happens.
Click(b, k) ==
  /\ Call(MenuAction(current_menu, wifi_menu, b, k))
  /\ UNCHANGED calls

\* top_pressed .. bottom_pressed_long, lines 1019-1062, called by a poll
\* pass: the action the current menu holds for the button and the kind of
\* click, if any, is called and tests the mode.
Pressed(b, k) ==
  /\ hnd.pc = "idle"
  /\ LET a == MenuAction(current_menu, wifi_menu, b, k)
     IN hnd' = IF Body(a) = <<>> THEN hnd ELSE [pc |-> "body", act |-> a, ops |-> Body(a)]
  /\ UNCHANGED <<in_progress, stateVars, dspVars, wifi_mode, wifi_menu,
                 action_event, mon, calls, notices, lifeVars, since>>

\* The handler executes its next statement.
HandlerStep ==
  /\ hnd.pc = "body"
  /\ Store(Do(Head(hnd.ops), Fields))
  /\ hnd' = IF Len(hnd.ops) = 1
              THEN [pc |-> "idle", act |-> "None", ops |-> <<>>]
              ELSE [hnd EXCEPT !.ops = Tail(hnd.ops)]
  /\ UNCHANGED <<in_progress, picture_done, update_type, mon, calls, notices, lifeVars>>

\* Where a caller of refresh_info continues: the consumer loop at its
\* loop test, any other caller outside.
Return(c) == IF c = 1 THEN "L1189" ELSE "idle"

At(c, pc) == [mon EXCEPT ![c].pc = pc]

\* The loop test, line 1189: continue_work().
continue_work ==
  /\ mon[1].pc = "L1189"
  /\ mon' = At(1, IF work_mode = "stop" THEN "done" ELSE "L1069")
  /\ UNCHANGED <<in_progress, stateVars, dspVars, wifi_mode, wifi_menu, action_event>>

\* wait_for_action_or_time, line 1069: action_event.wait().
EventWait ==
  /\ mon[1].pc = "L1069"
  /\ action_event
  /\ mon' = At(1, "L1070")
  /\ UNCHANGED <<in_progress, stateVars, dspVars, wifi_mode, wifi_menu, action_event>>

\* One more clear of action_event since it was last set; the count stops at
\* two.
Cleared(n) == IF n = 0 THEN 1 ELSE 2

\* A variant of line 1070 that leaves action_event set.
EventClear_LeavesSet ==
  /\ mon[1].pc = "L1070"
  /\ action_event' = action_event
  /\ since' = Cleared(since)
  /\ mon' = At(1, "call")
  /\ UNCHANGED <<in_progress, stateVars, dspVars, wifi_mode, wifi_menu>>

\* A variant of line 1070 after which the loop goes back to its test without
\* a pass.
EventClear_SkipsPass ==
  /\ mon[1].pc = "L1070"
  /\ action_event' = FALSE
  /\ since' = Cleared(since)
  /\ mon' = At(1, "L1189")
  /\ UNCHANGED <<in_progress, stateVars, dspVars, wifi_mode, wifi_menu>>

\* wait_for_action_or_time, line 1070: action_event.clear().
EventClear ==
  /\ mon[1].pc = "L1070"
  /\ action_event' = FALSE
  /\ since' = Cleared(since)
  /\ mon' = At(1, "call")
  /\ UNCHANGED <<in_progress, stateVars, dspVars, wifi_mode, wifi_menu>>

\* Another context calls refresh_info.
OtherCall(c) ==
  /\ c # 1
  /\ mon[c].pc = "idle"
  /\ mon' = At(c, "call")
  /\ UNCHANGED <<in_progress, stateVars, dspVars, wifi_mode, wifi_menu, action_event>>

\* A variant of refresh_info that never finds a pass in progress.
refresh_info_NoGuard(c) ==
  /\ mon[c].pc = "call"
  /\ \A d \in Callers : mon[d].pc # "L1084"
  /\ mon' = [mon EXCEPT ![c].pc = "L1084", ![c].go = TRUE]
  /\ UNCHANGED <<in_progress, stateVars, dspVars, wifi_mode, wifi_menu, action_event>>

\* refresh_info, lines 1079-1083: the caller takes the lock and reads
\* in_progress.  Line 1158 writes in_progress without the lock, so the
\* read and the write of line 1084 are separate steps.
refresh_info(c) ==
  /\ mon[c].pc = "call"
  /\ \A d \in Callers : mon[d].pc # "L1084"
  /\ mon' = [mon EXCEPT ![c].pc = "L1084", ![c].go = ~in_progress]
  /\ UNCHANGED <<in_progress, stateVars, dspVars, wifi_mode, wifi_menu, action_event>>

\* Lines 1084-1087: in_progress is set, the lock is released, and a caller
\* that found a pass in progress returns.
L1084(c) ==
  /\ mon[c].pc = "L1084"
  /\ in_progress' = TRUE
  /\ mon' = [mon EXCEPT ![c].pc = IF mon[c].go THEN "L1097" ELSE Return(c),
                         ![c].advanced = FALSE]
  /\ UNCHANGED <<stateVars, dspVars, wifi_mode, wifi_menu, action_event>>

\* Line 1097 and line 1142: the mode decides what the pass does.
L1097(c) ==
  /\ mon[c].pc = "L1097"
  /\ mon' = At(c, CASE work_mode = "run" -> "L1098"
                    [] work_mode = "sleep" -> "L1144"
                    [] OTHER -> "L1158")
  /\ UNCHANGED <<in_progress, stateVars, dspVars, wifi_mode, wifi_menu, action_event>>

\* Where the caller of a refresh_info that raised continues: nothing
\* catches the exception, so the consumer loop ends with it.
Raised(c) == IF c = 1 THEN "raised" ELSE "idle"

\* Lines 1098-1128: the sources are read and the screen is composed;
\* button_icons asks get_current_menu, which clears current_menu_changed.
\* ChronyInfo.update (lines 353-354) indexes the fields of the output of
\* chronyc and raises IndexError when there is none; nothing in
\* refresh_info catches it.
L1098(c) ==
  /\ mon[c].pc = "L1098"
  /\ \E chronyc \in {"fields", "empty"} :
       IF chronyc = "fields"
         THEN /\ current_menu_changed' = FALSE
              /\ mon' = At(c, "L1129")
         ELSE /\ mon' = At(c, Raised(c))
              /\ UNCHANGED current_menu_changed
  /\ UNCHANGED <<in_progress, work_mode, picture_done, shutdown_stage, current_menu,
                 dspVars, wifi_mode, wifi_menu, action_event, notices>>

\* One more shutdown notice has been drawn; the count stops at two.
Rendered(n) == IF n = 0 THEN 1 ELSE 2

\* Lines 1129-1133: the status line, and the shutdown notice.
L1129(c) ==
  /\ mon[c].pc = "L1129"
  /\ IF shutdown_stage = 0
       THEN /\ mon' = At(c, "L1134")
            /\ UNCHANGED <<shutdown_stage, notices>>
       ELSE /\ notices' = Rendered(notices)
            /\ shutdown_stage' = 2
            /\ mon' = [mon EXCEPT ![c].pc = "L1134", ![c].advanced = TRUE]
  /\ UNCHANGED <<in_progress, work_mode, picture_done, current_menu,
                 current_menu_changed, dspVars, wifi_mode, wifi_menu, action_event>>

\* DspInfo.show_final, lines 688-700.
show_final ==
  LET type1 == IF one_time_refresh /\ update_type = "PART" THEN "FULL" ELSE update_type
  IN IF one_time_refresh /\ type1 = "FULL"
       THEN /\ update_type' = "PART"
            /\ one_time_refresh' = FALSE
       ELSE /\ update_type' = type1
            /\ UNCHANGED one_time_refresh

\* Lines 1134-1136: the screen is shown and picture_done is reset.
L1134(c) ==
  /\ mon[c].pc = "L1134"
  /\ show_final
  /\ picture_done' = FALSE
  /\ mon' = At(c, "L1158")
  /\ UNCHANGED <<in_progress, work_mode, shutdown_stage, current_menu,
                 current_menu_changed, wifi_mode, wifi_menu, action_event>>

\* A variant of line 1144 that does not look at current_menu_changed.
L1144_IgnoresMenu(c) ==
  /\ mon[c].pc = "L1144"
  /\ mon' = At(c, IF ~picture_done \/ shutdown_stage = 1 THEN "L1146" ELSE "L1158")
  /\ UNCHANGED <<in_progress, stateVars, dspVars, wifi_mode, wifi_menu, action_event>>

\* Line 1144: whether a pass in sleep mode draws anything.
L1144(c) ==
  /\ mon[c].pc = "L1144"
  /\ mon' = At(c, IF current_menu_changed \/ ~picture_done \/ shutdown_stage = 1
                    THEN "L1146" ELSE "L1158")
  /\ UNCHANGED <<in_progress, stateVars, dspVars, wifi_mode, wifi_menu, action_event>>

\* Lines 1146-1152: the shutdown picture, or the screen saver and the icons.
L1146(c) ==
  /\ mon[c].pc = "L1146"
  /\ IF shutdown_stage = 1
       THEN /\ notices' = Rendered(notices)
            /\ shutdown_stage' = 2
            /\ mon' = [mon EXCEPT ![c].pc = "L1154", ![c].advanced = TRUE]
            /\ UNCHANGED current_menu_changed
       ELSE /\ current_menu_changed' = FALSE
            /\ mon' = At(c, "L1154")
            /\ UNCHANGED <<shutdown_stage, notices>>
  /\ UNCHANGED <<in_progress, work_mode, picture_done, current_menu, dspVars,
                 wifi_mode, wifi_menu, action_event>>

\* Lines 1154-1155: show_final_full and picture_done.
L1154(c) ==
  /\ mon[c].pc = "L1154"
  /\ picture_done' = TRUE
  /\ mon' = At(c, "L1158")
  /\ UNCHANGED <<in_progress, work_mode, shutdown_stage, current_menu,
                 current_menu_changed, dspVars, wifi_mode, wifi_menu, action_event>>

\* Line 1158: the pass gives the guard back.
L1158(c) ==
  /\ mon[c].pc = "L1158"
  /\ in_progress' = FALSE
  /\ mon' = At(c, "L1160")
  /\ UNCHANGED <<stateVars, dspVars, wifi_mode, wifi_menu, action_event>>

\* A variant of lines 1160-1161 that leaves the stop to a pass that did not
\* advance the stage itself.
L1160_StopInLaterPass(c) ==
  /\ mon[c].pc = "L1160"
  /\ work_mode' = IF shutdown_stage = 2 /\ ~mon[c].advanced THEN "stop" ELSE work_mode
  /\ mon' = At(c, Return(c))
  /\ UNCHANGED <<in_progress, picture_done, shutdown_stage, current_menu,
                 current_menu_changed, dspVars, wifi_mode, wifi_menu, action_event>>

\* Lines 1160-1161: a shutdown in stage 2 stops the work.
L1160(c) ==
  /\ mon[c].pc = "L1160"
  /\ work_mode' = IF shutdown_stage = 2 THEN "stop" ELSE work_mode
  /\ mon' = At(c, Return(c))
  /\ UNCHANGED <<in_progress, picture_done, shutdown_stage, current_menu,
                 current_menu_changed, dspVars, wifi_mode, wifi_menu, action_event>>

\* ------------------------------------------------------- Monitor.destroy
\* Line 1177: self.repeated_real_timer.stop()
L1177 ==
  /\ down = "no"
  /\ real_stop
  /\ down' = "L1178"
  /\ UNCHANGED debounceVars

\* Line 1178: self.bc.destroy(), lines 232-234: status, the dictionary of
\* buttons and the GPIO channels are released; self.timer is not touched.
L1178 ==
  /\ down = "L1178"
  /\ down' = "returned"
  /\ UNCHANGED <<pollVars, realVars, action_event>>

\* Line 252 once ButtonController.destroy has emptied self.buttons: a pass
\* that starts its loop finds no button.
L252_NoButtons(r) ==
  /\ down = "returned"
  /\ r.pc = "L253"
  /\ r.b = 1
  /\ thr' = Replace(thr, r, [r EXCEPT !.pc = "L268"])
  /\ UNCHANGED <<now, ticks, active, is_running, next_call, buttonVars,
                 edge, edges, clicks, ups>>

\* ---------------------------------------------------------------- Init
Init ==
  /\ now = 0
  /\ ticks = 0
  \* RepeatedTimer.__init__ ends with self.start()
  /\ active = TRUE
  /\ is_running = TRUE
  /\ next_call = Interval
  /\ thr = One(TimerThread(FirstDelay, TRUE, FALSE))
  /\ status = [b \in Buttons |-> "UP"]
  /\ status_time = [b \in Buttons |-> 0]
  /\ momentary_status = [b \in Buttons |-> "UP"]
  /\ momentary_status_time = [b \in Buttons |-> 0]
  /\ edge = [pc |-> "idle", b |-> 0]
  /\ edges = 0
  /\ clicks = [b \in Buttons |-> <<>>]
  /\ ups = [b \in Buttons |-> 0]
  \* RepeatedRealTimer.__init__ ends with self.start()
  /\ real_active = TRUE
  /\ real_is_running = TRUE
  /\ real_thr = One(RealTimerThread(0, -1))
  \* Monitor.__init__ and DspInfo.__init__
  /\ action_event = FALSE
  /\ in_progress = FALSE
  /\ work_mode = "run"
  /\ picture_done = FALSE
  /\ shutdown_stage = 0
  /\ current_menu = "main"
  /\ current_menu_changed = FALSE
  /\ one_time_refresh = TRUE
  /\ update_type = "FULL"
  /\ wifi_mode = "AP"
  /\ wifi_menu = "INITIAL"
  /\ mon = [c \in Callers |-> [pc |-> Return(c), go |-> TRUE, advanced |-> FALSE]]
  /\ hnd = [pc |-> "idle", act |-> "None", ops |-> <<>>]
  /\ calls = <<"None", "None">>
  /\ notices = 0
  /\ down = "no"
  /\ since = 0

\* ------------------------------------------------------------- the system
PollNext ==
  \/ Tick /\ UNCHANGED <<realVars, action_event, monVars>>
  \/ \E r \in BagToSet(thr) : Expire(r) /\ UNCHANGED <<realVars, action_event, monVars>>
  \/ \E r \in BagToSet(thr) : Run(r) /\ UNCHANGED <<realVars, action_event, monVars>>
  \/ \E r \in BagToSet(thr) : L253(r) /\ UNCHANGED <<realVars, action_event, monVars>>
  \/ \E r \in BagToSet(thr) : L255(r) /\ UNCHANGED <<realVars, action_event, monVars>>
  \/ \E r \in BagToSet(thr) : L257(r) /\ UNCHANGED <<realVars, action_event, monVars>>
  \/ \E r \in BagToSet(thr) : L258(r) /\ UNCHANGED <<realVars, action_event, monVars>>
  \/ \E r \in BagToSet(thr) : L259(r) /\ UNCHANGED <<realVars, action_event, monVars>>
  \/ \E r \in BagToSet(thr) : L268(r) /\ UNCHANGED <<realVars, action_event, monVars>>
  \/ \E b \in Buttons, level \in {"UP", "DOWN"} :
       EdgeLevel(b, level) /\ UNCHANGED <<realVars, action_event, monVars>>
  \/ EdgeStamp /\ UNCHANGED <<realVars, action_event, monVars>>
  \/ EdgeStart /\ UNCHANGED <<realVars, action_event, monVars>>

RealNext ==
  \/ RealTick /\ UNCHANGED <<debounceVars, monVars>>
  \/ real_start /\ UNCHANGED <<debounceVars, monVars>>
  \/ real_stop /\ UNCHANGED <<debounceVars, monVars>>
  \/ \E r \in BagToSet(real_thr) : RealExpire(r) /\ UNCHANGED <<debounceVars, monVars>>
  \/ \E r \in BagToSet(real_thr) : RealCall(r) /\ UNCHANGED <<debounceVars, monVars>>
  \/ \E r \in BagToSet(real_thr) : RealRun(r) /\ UNCHANGED <<debounceVars, monVars>>

\* A refresh pass.
PassNext ==
  \/ \E c \in Callers : refresh_info(c) /\ UNCHANGED <<pollVars, realVars, hnd, calls, notices, lifeVars, since>>
  \/ \E c \in Callers : L1084(c) /\ UNCHANGED <<pollVars, realVars, hnd, calls, notices, lifeVars, since>>
  \/ \E c \in Callers : L1097(c) /\ UNCHANGED <<pollVars, realVars, hnd, calls, notices, lifeVars, since>>
  \/ \E c \in Callers : L1098(c) /\ UNCHANGED <<pollVars, realVars, hnd, calls, lifeVars, since>>
  \/ \E c \in Callers : L1129(c) /\ UNCHANGED <<pollVars, realVars, hnd, calls, lifeVars, since>>
  \/ \E c \in Callers : L1134(c) /\ UNCHANGED <<pollVars, realVars, hnd, calls, notices, lifeVars, since>>
  \/ \E c \in Callers : L1144(c) /\ UNCHANGED <<pollVars, realVars, hnd, calls, notices, lifeVars, since>>
  \/ \E c \in Callers : L1146(c) /\ UNCHANGED <<pollVars, realVars, hnd, calls, lifeVars, since>>
  \/ \E c \in Callers : L1154(c) /\ UNCHANGED <<pollVars, realVars, hnd, calls, notices, lifeVars, since>>
  \/ \E c \in Callers : L1158(c) /\ UNCHANGED <<pollVars, realVars, hnd, calls, notices, lifeVars, since>>
  \/ \E c \in Callers : L1160(c) /\ UNCHANGED <<pollVars, realVars, hnd, calls, notices, lifeVars, since>>

\* The wall-clock timer calls poll_info.
TimerFires ==
  /\ poll_info
  /\ since' = 0
  /\ UNCHANGED <<pollVars, realVars, in_progress, stateVars, dspVars, wifi_mode,
                 wifi_menu, mon, hnd, calls, notices, lifeVars>>

\* The consumer loop outside a pass.
ConsumerNext ==
  \/ continue_work /\ UNCHANGED <<pollVars, realVars, hnd, calls, notices, lifeVars, since>>
  \/ EventWait /\ UNCHANGED <<pollVars, realVars, hnd, calls, notices, lifeVars, since>>
  \/ EventClear /\ UNCHANGED <<pollVars, realVars, hnd, calls, notices, lifeVars>>

\* The consumer loop and the wake signal of the timer.
WakeNext ==
  \/ TimerFires
  \/ ConsumerNext

\* Monitor as the program runs it: the consumer loop, and the handlers a
\* poll pass calls, statement by statement.
LoopNext ==
  \/ WakeNext
  \/ PassNext
  \/ \E b \in MenuButtons, k \in ClickKinds : Pressed(b, k) /\ UNCHANGED <<pollVars, realVars>>
  \/ HandlerStep /\ UNCHANGED <<pollVars, realVars>>

\* Monitor with further contexts calling refresh_info.
MonNext ==
  \/ WakeNext
  \/ PassNext
  \/ \E b \in MenuButtons, k \in ClickKinds : Click(b, k) /\ UNCHANGED <<pollVars, realVars>>
  \/ \E c \in Callers : OtherCall(c) /\ UNCHANGED <<pollVars, realVars, hnd, calls, notices, lifeVars, since>>

\* The handlers called one after the other by a single thread.
ActionsNext ==
  \/ Invoke("action_refresh") /\ UNCHANGED <<pollVars, realVars>>
  \/ Invoke("action_sleep") /\ UNCHANGED <<pollVars, realVars>>
  \/ Invoke("action_cancel_wifi_select") /\ UNCHANGED <<pollVars, realVars>>
  \/ Invoke("action_wifi_select") /\ UNCHANGED <<pollVars, realVars>>
  \/ Invoke("action_wifi_home") /\ UNCHANGED <<pollVars, realVars>>
  \/ Invoke("action_wifi_field") /\ UNCHANGED <<pollVars, realVars>>
  \/ Invoke("action_wifi_off") /\ UNCHANGED <<pollVars, realVars>>
  \/ Invoke("action_power") /\ UNCHANGED <<pollVars, realVars>>
  \/ Invoke("action_exit_confirm") /\ UNCHANGED <<pollVars, realVars>>
  \/ Invoke("action_wakeup") /\ UNCHANGED <<pollVars, realVars>>
  \/ Invoke("action_shutdown") /\ UNCHANGED <<pollVars, realVars>>
  \/ Invoke("action_cancel_shutdown") /\ UNCHANGED <<pollVars, realVars>>
  \/ Invoke("action_exit") /\ UNCHANGED <<pollVars, realVars>>
  \/ Invoke("action_cancel_exit") /\ UNCHANGED <<pollVars, realVars>>

\* The frame of the steps of the timers and the debouncer during teardown.
Alive == UNCHANGED <<in_progress, stateVars, dspVars, wifi_mode, wifi_menu, mon,
                     hnd, calls, notices, since>>

\* The two timers and the poll passes, with Monitor.destroy called at any
\* time.  The edge callback reports only levels the button already has (a
\* bounce), which starts the poll timer and leaves every channel settled.
TeardownNext ==
  \/ RealTick /\ UNCHANGED <<debounceVars, monVars>>
  \/ \E r \in BagToSet(thr) : Expire(r) /\ UNCHANGED <<realVars, action_event, monVars>>
  \/ \E r \in BagToSet(thr) : Run(r) /\ UNCHANGED <<realVars, action_event, monVars>>
  \/ \E r \in BagToSet(thr) :
       /\ ~(down = "returned" /\ r.b = 1)
       /\ L253(r)
       /\ UNCHANGED <<realVars, action_event, monVars>>
  \/ \E r \in BagToSet(thr) : L252_NoButtons(r) /\ UNCHANGED <<realVars, action_event, monVars>>
  \/ \E r \in BagToSet(thr) : L268(r) /\ UNCHANGED <<realVars, action_event, monVars>>
  \/ \E b \in Buttons :
       /\ down # "returned"
       /\ EdgeLevel(b, momentary_status[b])
       /\ UNCHANGED <<realVars, action_event, monVars>>
  \/ EdgeStart /\ UNCHANGED <<realVars, action_event, monVars>>
  \/ \E r \in BagToSet(real_thr) : RealExpire(r) /\ UNCHANGED <<debounceVars, monVars>>
  \/ \E r \in BagToSet(real_thr) : RealCall(r) /\ UNCHANGED <<debounceVars, monVars>>
  \/ \E r \in BagToSet(real_thr) : RealRun(r) /\ UNCHANGED <<debounceVars, monVars>>
  \/ L1177 /\ Alive
  \/ L1178 /\ Alive

\* The debouncer.
Spec == Init /\ [][PollNext]_vars

\* The RepeatedRealTimer.
SpecReal == Init /\ [][RealNext]_vars

\* Monitor, with a second caller of refresh_info.
SpecMonitor == Init /\ [][MonNext]_vars

\* Monitor, as the program runs it.
SpecLoop == Init /\ [][LoopNext]_vars

\* The action handlers.
SpecActions == Init /\ [][ActionsNext]_vars

\* The timers and the debouncer until and after Monitor.destroy.
\* The program of SpecLoop with its threads scheduled fairly: the main thread
\* goes on with the loop and the pass, the thread of the poll timer goes on
\* with the handler it has called, and the wall-clock timer keeps firing.
\* Clicks are up to the user and have no fairness.
LoopFairness ==
  /\ WF_vars(ConsumerNext \/ PassNext)
  /\ WF_vars(HandlerStep /\ UNCHANGED <<pollVars, realVars>>)
  /\ WF_vars(TimerFires)

SpecLoopFair == Init /\ [][LoopNext]_vars /\ LoopFairness

SpecTeardown == Init /\ [][TeardownNext]_vars

\* ================================================================ properties
Pending == {r \in BagToSet(thr) : r.pc \in {"wait", "fired"}}

PendingCount ==
  LET n[S \in SUBSET Pending] ==
        IF S = {} THEN 0
        ELSE LET r == CHOOSE x \in S : TRUE IN CopiesIn(r, thr) + n[S \ {r}]
  IN n[Pending]

Unsettled(b) == status[b] # momentary_status[b]

AllSettled == \A b \in Buttons : ~Unsettled(b)

\* No pass is between its write of b.status and its test of it.
Quiescent(b) ==
  \A r \in BagToSet(thr) : r.pc \in {"L258", "L259"} => r.b # b

\* The handlers dispatched by the passes that changed b from DOWN to UP.
Releases(b) == {k \in 1..Len(clicks[b]) : clicks[b][k].prev = "DOWN"}

\* C1: every debounced DOWN->UP transition dispatches exactly one handler,
\* once: each change of a button from DOWN to UP has the handler its pass
\* dispatched, no two handlers are dispatched for the same pair of debounced
\* timestamps, and each is the short handler when the two timestamps are less
\* than 1.0 s apart and the long handler otherwise.
C1_ExactlyOneHandlerPerRelease ==
  \A b \in Buttons :
    /\ \A k \in 1..Len(clicks[b]) :
         clicks[b][k].kind =
           IF clicks[b][k].up - clicks[b][k].down < LongMs THEN "short" ELSE "long"
    /\ \A k, m \in 1..Len(clicks[b]) :
         (clicks[b][k].down = clicks[b][m].down /\ clicks[b][k].up = clicks[b][m].up)
           => k = m
    /\ Quiescent(b) => Cardinality(Releases(b)) = ups[b]

\* C2: a handler is dispatched only by a commit that changed the debounced
\* state from DOWN to UP: the state the commit overwrote was DOWN.
C2_HandlerOnlyAfterSettledDown ==
  \A b \in Buttons : \A k \in 1..Len(clicks[b]) : clicks[b][k].prev = "DOWN"

\* C3: once the edge callback has returned, an unsettled channel has the
\* poll timer active.
C3_UnsettledImpliesArmed ==
  (edge.pc = "idle" /\ ~AllSettled) => active

\* C4 (as the specification words it): the pass that ends with every channel settled stops the
\* timer in that pass.
C4_StopsInCommittingPass ==
  [][\A r \in BagToSet(thr) : (L268(r) /\ AllSettled) => ~active']_vars

\* C4 (amended): a pass stops the timer at its end exactly when it found no
\* channel unsettled when it examined it; a pass that found one unsettled,
\* so every pass that commits a channel, leaves the timer as it is.
C4_StopsWhenNoMismatchSeen ==
  /\ [](\A r \in BagToSet(thr) :
          r.pc \in {"L255", "L257", "L258", "L259"} => r.mismatch)
  /\ [][\A r \in BagToSet(thr) :
          L268(r) => IF r.mismatch THEN active' = active ELSE ~active']_vars

\* A pass has committed the only unsettled channel (the press is now the
\* debounced state) and is about to end with the timer still running.
C4_Witness ==
  \E r \in BagToSet(thr) :
    /\ r.pc = "L268" /\ r.mismatch
    /\ edge.pc = "idle"
    /\ AllSettled /\ active
    /\ \E b \in Buttons : status[b] = "DOWN"

\* C5: the callback is invoked only while the timer is active: never between
\* a stop() and the next start().
C5_NoCallbackAfterStop ==
  [][\A r \in BagToSet(thr) : Run(r) => active]_vars

\* C6: an active timer has one pending firing at most.
C6_OnePendingFiring == active => PendingCount <= 1

\* C7: without an overrun, every firing schedules the next one exactly one
\* interval after its own intended time, the first firing included.
C7_NextIsOneIntervalLater ==
  [][\A r \in BagToSet(thr) :
       (Run(r) /\ active /\ next_call + Interval >= now)
         => next_call' = r.due + Interval]_vars

\* C8: a firing of _run with the timer active moves next_call forward by a
\* positive multiple of interval to a time that is not before now, schedules
\* exactly one Timer for it, and after an overrun that time is the first of
\* the cadence that is not before now.
C8_CatchUp ==
  [][\A r \in BagToSet(thr) :
       (Run(r) /\ active) =>
         /\ next_call' > next_call
         /\ next_call' >= now
         /\ (next_call' - next_call) % Interval = 0
         /\ (next_call + Interval < now) => next_call' - Interval < now
         /\ BagCardinality(thr') = BagCardinality(thr) + 1
         /\ \E q \in BagToSet(thr') :
              /\ q.pc = "wait" /\ q.latest /\ q.due = next_call'
              /\ CopiesIn(q, thr') = CopiesIn(q, thr) + 1]_vars

\* After an overrun that is not a whole number of intervals, the one Timer
\* of the catch-up is waiting for an instant less than an interval ahead.
C8_Witness ==
  \E q \in BagToSet(thr) :
    /\ q.pc = "wait" /\ q.late /\ q.latest
    /\ q.due = next_call
    /\ now < q.due /\ q.due < now + Interval

\* C9: every firing the RepeatedRealTimer schedules is due at the smallest
\* multiple of the interval strictly greater than the clock reading it was
\* scheduled at; the function is never called before that instant, and two
\* successive calls of a chain never fall between the same two boundaries,
\* however long the function took.
C9_NextBoundary ==
  \A r \in BagToSet(real_thr) :
    /\ r.due % RealInterval = 0
    /\ r.due > r.sched
    /\ r.due - r.sched <= RealInterval
    /\ r.prev <= r.sched
    /\ r.pc = "called" =>
         /\ r.fire >= r.due
         /\ r.prev >= 0 => r.fire \div RealInterval > r.prev \div RealInterval

\* The function took longer than an interval: the next call was scheduled
\* for the boundary after its return and has been made, with a boundary
\* between the two calls on which nothing fired.
C9_Witness ==
  \E r \in BagToSet(real_thr) :
    /\ r.pc = "called"
    /\ r.prev >= 0
    /\ r.sched - r.prev > RealInterval
    /\ r.due - r.sched < RealInterval

BodyPcs == {"L1097", "L1098", "L1129", "L1134", "L1144", "L1146", "L1154", "L1158"}

InBody == {c \in Callers : mon[c].pc \in BodyPcs}

\* C10: at most one caller is inside the body of refresh_info, and while one
\* is in_progress is set; a caller that finds a pass in progress changes
\* neither the mode, the menu, the shutdown stage, the display flags nor
\* the wake signal, and is back where it called from without entering.
C10_OnePassAtATime ==
  /\ [](Cardinality(InBody) <= 1 /\ (InBody # {} => in_progress))
  /\ [][\A c \in Callers :
          (mon[c].pc \in {"call", "L1084"} /\ mon'[c] # mon[c] /\ ~mon'[c].go) =>
            /\ UNCHANGED <<stateVars, dspVars, wifi_mode, wifi_menu, action_event>>
            /\ mon'[c].pc \in {"L1084", Return(c)}]_vars

\* A call has returned without entering while another caller is in the body.
C10_Witness ==
  \E c, d \in Callers :
    /\ c # d
    /\ mon[c].pc \in BodyPcs
    /\ mon[d].pc = Return(d) /\ ~mon[d].go

\* C11: every step by which a caller leaves the body of a refresh pass, the
\* failure of a data source included, leaves in_progress false.
C11_ReleasedOnEveryExit ==
  [][\A c \in Callers :
       (mon[c].pc \in BodyPcs /\ mon'[c].pc \notin BodyPcs) => ~in_progress']_vars

\* C12: once work_mode is "stop" it stays "stop".
C12_StoppedIsTerminal ==
  [][work_mode = "stop" => work_mode' = "stop"]_vars

\* The modes in which the transition table lets an action act; the refresh
\* action is not in the table and is held only to doing nothing when stopped.
TableGuard(a) ==
  CASE a \in {"action_sleep", "action_wifi_select", "action_wifi_home",
              "action_wifi_field", "action_wifi_off",
              "action_cancel_wifi_select"} -> {"run"}
    [] a = "action_wakeup" -> {"sleep"}
    [] OTHER -> {"run", "sleep"}

\* C13: an action invoked in a mode outside its guard in the transition
\* table leaves the mode, the active menu, the menu-changed flag, the
\* shutdown stage, the wifi mode and the wake signal as they were.
C13_NoOpOutsideGuard ==
  [][\A a \in Actions :
       (Invoke(a) /\ work_mode \notin TableGuard(a))
         => UNCHANGED <<work_mode, current_menu, current_menu_changed,
                        shutdown_stage, wifi_mode, action_event>>]_vars

\* The menu a cancelled confirmation returns to.
HomeMenu(mode) == IF mode = "run" THEN "main" ELSE "sleep"

Leaves(c, pc) == mon[c].pc = pc /\ mon'[c].pc # pc

C16_NoticeOnceAndStop ==
  [][/\ notices' <= 1
     /\ \A c \in Callers :
          (Leaves(c, "L1160") /\ mon[c].advanced) => work_mode' = "stop"]_vars

WifiModes == {"CLIENT", "AP", "OFF"}

\* The slot of a wifi mode in the wifi menu: home, field, off from the top.
SlotOf(mode) ==
  CASE mode = "CLIENT" -> "TOP"
    [] mode = "AP" -> "MIDDLE"
    [] OTHER -> "BOTTOM"

\* C17, with the placement for "AP" the code has: the menu action_wifi_select
\* builds is the one for the current wifi mode and becomes the current menu;
\* its cancel action is the short handler of the middle slot for "AP" (the
\* bottom slot keeps the off action), of the top slot for "CLIENT" and of
\* the bottom slot for "OFF".
C17_CancelInSlotOfMode ==
  [][(Invoke("action_wifi_select") /\ work_mode \in {"run", "sleep"})
       => /\ current_menu' = "wifi"
          /\ wifi_menu' = wifi_mode
          /\ MenuAction("wifi", wifi_menu', SlotOf(wifi_mode), "short")
               = "action_cancel_wifi_select"
          /\ wifi_mode = "AP"
               => /\ SlotOf(wifi_mode) = "MIDDLE"
                  /\ MenuAction("wifi", wifi_menu', "BOTTOM", "short") = "action_wifi_off"]_vars

\* action_wifi_select has built the menu for "AP".
C17_Witness ==
  /\ calls[2] = "action_wifi_select"
  /\ current_menu = "wifi"
  /\ wifi_menu = "AP"
  /\ wifi_mode = "AP"

\* C17 as stated: for "AP" the cancel action is the short handler of the
\* bottom slot.
C17_CancelAtBottomForAP ==
  [][(Invoke("action_wifi_select") /\ work_mode \in {"run", "sleep"} /\ wifi_mode = "AP")
       => MenuAction("wifi", wifi_menu', "BOTTOM", "short")
            = "action_cancel_wifi_select"]_vars

\* The wifi modes the short handler of slot b of the wifi menu switches to.
Offered(b) ==
  LET ops == Body(MenuAction("wifi", wifi_menu, b, "short"))
  IN {ops[i].v : i \in {j \in 1..Len(ops) : ops[j].f = "wifi_mode"}}

\* C18: while the wifi menu is the current menu, the slot of the recorded
\* wifi mode holds the cancel action, each other slot switches (in RUN) to
\* the mode of that slot, no slot switches to the recorded mode, and there
\* are no long handlers.
C18_MenuOmitsActiveMode ==
  current_menu = "wifi"
    => /\ MenuAction("wifi", wifi_menu, SlotOf(wifi_mode), "short")
            = "action_cancel_wifi_select"
       /\ \A m \in WifiModes \ {wifi_mode} :
            /\ MenuAction("wifi", wifi_menu, SlotOf(m), "short")
                 \in {"action_wifi_home", "action_wifi_field", "action_wifi_off"}
            /\ work_mode = "run" => Offered(SlotOf(m)) = {m}
       /\ \A b \in MenuButtons :
            /\ wifi_mode \notin Offered(b)
            /\ MenuAction("wifi", wifi_menu, b, "long") = "None"

\* The wifi menu built after the wifi was switched off.
C18_Witness ==
  /\ calls = <<"action_wifi_off", "action_wifi_select">>
  /\ current_menu = "wifi"
  /\ wifi_mode = "OFF"
  /\ work_mode = "run"

\* C19: after pressed() / released() the momentary state is the target of
\* the call; a call whose target is the momentary state already leaves the
\* momentary state and its timestamp alone and goes straight on to
\* timer.start(); the timestamp is written only by a call that changed the
\* state; no step of pressed() / released() changes status or status_time.
C19_EdgeCallsIdempotent ==
  [][/\ \A b \in Buttons, level \in {"UP", "DOWN"} :
          EdgeLevel(b, level)
            => /\ momentary_status'[b] = level
               /\ momentary_status[b] = level
                    => /\ edge'.pc = "start"
                       /\ UNCHANGED <<momentary_status, momentary_status_time>>
               /\ momentary_status[b] # level => edge'.pc = "stamp"
     /\ momentary_status_time' # momentary_status_time
          => /\ edge.pc = "stamp"
             /\ \A b \in Buttons \ {edge.b} :
                  momentary_status_time'[b] = momentary_status_time[b]
     /\ (edge.pc # "start" /\ edge' # edge) => UNCHANGED <<status, status_time>>]_vars

\* The first call of the callback was released() on a button that is up:
\* the momentary state and its timestamp are those of the construction.
C19_Witness ==
  /\ edges = 1
  /\ edge.pc = "start"
  /\ momentary_status[edge.b] = "UP"
  /\ momentary_status_time[edge.b] = 0
  /\ now > 0

\* C20: a poll pass that examines an unsettled channel at line 255 commits
\* it exactly when the time from the momentary timestamp to the poll time
\* is at least 100 ms.
C20_CommitIffFullElapsed ==
  [][\A r \in BagToSet(thr) :
       L255(r)
         => ( (r.t - momentary_status_time[r.b] >= SettleMs)
              <=> thr' = Replace(thr, r, [r EXCEPT !.pc = "L257",
                                                   !.old_time = status_time[r.b]]) )]_vars

\* The Timer threads of the RepeatedRealTimer that have not yet entered _run.
RealPending == {r \in BagToSet(real_thr) : r.pc \in {"wait", "fired"}}

\* C21: when Monitor.destroy returns, the RepeatedRealTimer and the poll
\* timer of the ButtonController are inactive and neither has a Timer
\* thread that is still to fire.
C21_TimersStoppedAtReturn ==
  [][(down = "L1178" /\ down' = "returned")
       => /\ ~real_active'
          /\ ~active'
          /\ RealPending' = {}
          /\ Pending' = {}]_vars

\* C22: the wake signal is a latch.  However many times action_event is set,
\* the consumer clears it at most once until it is set again; a clear leaves
\* the signal unset, is taken only after a wait that found it set, and is
\* followed by exactly one call of refresh_info before the loop tests and
\* waits again.  So sets made during a pass cause one further pass, not two.
C22_LatchOnePass ==
  [][/\ since' <= 1
     /\ Leaves(1, "L1070") => /\ ~action_event' /\ mon'[1].pc = "call"
     /\ Leaves(1, "call") => mon'[1].pc = "L1084"
     /\ (mon'[1].pc = "L1084" /\ mon[1].pc # "L1084") => mon[1].pc = "call"
     /\ (mon'[1].pc = "call" /\ mon[1].pc # "call") => mon[1].pc = "L1070"
     /\ (mon'[1].pc = "L1070" /\ mon[1].pc # "L1070")
          => /\ mon[1].pc = "L1069" /\ action_event]_vars

\* A handler has changed the menu and set the signal, the consumer has
\* cleared it once and begun the pass, and the signal is unset.
C22_Witness ==
  /\ since = 1
  /\ mon[1].pc = "L1084"
  /\ ~action_event
  /\ hnd.pc = "idle"
  /\ current_menu = "power"
\* The step is taken by action a: the whole call where handlers run one
\* after the other, one of its statements where they run beside a pass.
ByAction(a) ==
  \/ Invoke(a)
  \/ hnd.pc = "body" /\ hnd.act = a /\ HandlerStep

\* The step is the end of a pass that finds the shutdown stage at 2.
ByConfirmedPass == shutdown_stage = 2 /\ \E c \in Callers : L1160(c)

\* C23: work_mode changes only from "run" to "sleep" by action_sleep (which,
\* called whole, also selects the sleep menu), from "sleep" to "run" by
\* action_wakeup (which also selects the main menu and sets
\* one_time_refresh), and from "run" or "sleep" to "stop" by action_exit or
\* by the end of a pass with the stage at 2; no other action changes it.
C23_ModeChangesByTable ==
  [][/\ work_mode' # work_mode
          => \/ /\ work_mode = "run" /\ work_mode' = "sleep"
                /\ ByAction("action_sleep")
                /\ Invoke("action_sleep") => current_menu' = "sleep"
             \/ /\ work_mode = "sleep" /\ work_mode' = "run"
                /\ ByAction("action_wakeup")
                /\ Invoke("action_wakeup")
                     => current_menu' = "main" /\ one_time_refresh'
             \/ /\ work_mode \in {"run", "sleep"} /\ work_mode' = "stop"
                /\ ByAction("action_exit") \/ ByConfirmedPass
     /\ \A a \in Actions \ {"action_sleep", "action_wakeup", "action_exit"} :
          ByAction(a) => work_mode' = work_mode]_vars
\* What line 1144 tests.
SleepCondition == current_menu_changed \/ ~picture_done \/ shutdown_stage = 1

\* A pass in sleep mode draws exactly when line 1144 finds the menu changed,
\* no sleep picture drawn since the last pass in run mode, or the stage at
\* 1; a pass that does not draw leaves picture_done, the stage, the notices
\* and the update type as they are.
SleepPassFrame ==
  \A c \in Callers :
    /\ (mon'[c].pc = "L1146" /\ mon[c].pc # "L1146")
         => mon[c].pc = "L1144" /\ SleepCondition
    /\ Leaves(c, "L1144")
         => /\ mon'[c].pc = IF SleepCondition THEN "L1146" ELSE "L1158"
            /\ UNCHANGED <<picture_done, shutdown_stage, notices, update_type>>
    /\ (mon[c].pc \in {"L1158", "L1160"} /\ mon'[c] # mon[c])
         => UNCHANGED <<picture_done, shutdown_stage, notices, update_type>>
    /\ (mon[c].pc \in {"L1144", "L1146", "L1154"} /\ picture_done' # picture_done)
         => mon[c].pc = "L1154" /\ picture_done'

LoopEnded == mon[1].pc \in {"done", "raised"}

\* C25: once work_mode is "stop" the consumer loop ends; it neither goes on
\* with passes nor waits for ever.
C25_StoppedLoopEnds == (work_mode = "stop") ~> LoopEnded
\* C26: the stage is never reset to 0, so a shutdown was requested exactly
\* when the stage is not 0; when the consumer loop has exited a requested
\* shutdown is at stage 2, which is what line 1194 tests.
C26_RequestedShutdownIssued ==
  mon[1].pc = "done" => shutdown_stage # 1
C29_GlitchFiltered ==
  \A b \in Buttons :
    (/\ status[b] = "UP" /\ momentary_status[b] = "UP"
     /\ ups[b] = 0
     /\ momentary_status_time[b] < SettleMs)
      => /\ status_time[b] = 0
         /\ clicks[b] = <<>>
====
